---- MODULE Spec2Model ----
(***************************************************************************)
(* Model of keepalived's SMTP checker (keepalived/check/check_smtp.c):     *)
(* the connect / read / write callbacks, the protocol engine, the line     *)
(* buffer, the status parser and the retry / failover policy of            *)
(* smtp_final.  One action per scheduler callback; a callback runs to its  *)
(* return, every function it calls included.                               *)
(***************************************************************************)
EXTENDS Integers, Sequences, FiniteSets, TLC

(* ------------------------------ bounds -------------------------------- *)
\* Capacity of smtp_checker->buff in the model (bytes).
SMTP_BUFF_MAX == 9
\* Largest number of configured hosts (LIST_SIZE(smtp_checker->host)).
MaxHosts == 2
\* Largest configured checker->retry.
MaxRetry == 2
\* Longest buffer content the status parser is exercised on.
MaxLen == 5

(* ------------------------------- bytes -------------------------------- *)
NUL == "NUL"
SP == " "
CR == "CR"
LF == "LF"
TAB == "TAB"

\* The bytes the status parser is exercised on.
ParseAlphabet == {"2", "5", SP, "+", "-", CR, LF, "K"}

Digits == {"0", "1", "2", "3", "4", "5", "6", "7", "8", "9"}

DigitVal(ch) ==
  CASE ch = "0" -> 0 [] ch = "1" -> 1 [] ch = "2" -> 2 [] ch = "3" -> 3
    [] ch = "4" -> 4 [] ch = "5" -> 5 [] ch = "6" -> 6 [] ch = "7" -> 7
    [] ch = "8" -> 8 [] ch = "9" -> 9

\* isspace() of the C locale, as strtoul uses it to skip leading bytes.
IsSpace(ch) == ch \in {SP, TAB, LF, CR, "VT", "FF"}

(* ---------------------------- line buffer ----------------------------- *)
\* memset(smtp_checker->buff, 0, SMTP_BUFF_MAX)
ClearedBuff == [i \in 1..SMTP_BUFF_MAX |-> NUL]

\* The bytes data stored at byte offset pos (0-based) of b.
StoreAt(b, pos, data) ==
  [i \in 1..SMTP_BUFF_MAX |->
     IF i > pos /\ i <= pos + Len(data) THEN data[i - pos] ELSE b[i]]

\* Index (1-based) of the first NUL of b, or SMTP_BUFF_MAX + 1.
RECURSIVE FirstNul(_, _)
FirstNul(b, i) ==
  IF i > SMTP_BUFF_MAX THEN SMTP_BUFF_MAX + 1
  ELSE IF b[i] = NUL THEN i ELSE FirstNul(b, i + 1)

\* The C string that starts at buff[0].
CStr(b) == SubSeq(b, 1, FirstNul(b, 1) - 1)

\* strlen(smtp_checker->buff)
StrLen(b) == Len(CStr(b))

\* for (x = 0; x < SMTP_BUFF_MAX; x++) if (buff[x] == '\n')
HasNewline(b) == \E x \in 1..SMTP_BUFF_MAX : b[x] = LF

\* buff[SMTP_BUFF_MAX - 1] = '\0'
Terminate(b) == [b EXCEPT ![SMTP_BUFF_MAX] = NUL]

\* snprintf(buff, SMTP_BUFF_MAX, line): at most SMTP_BUFF_MAX - 1 bytes of
\* line and a NUL; the bytes after the NUL keep their old value.
Min(a, b) == IF a < b THEN a ELSE b
Snprintf(b, line) ==
  LET n == Min(Len(line), SMTP_BUFF_MAX - 1)
  IN  [i \in 1..SMTP_BUFF_MAX |->
         IF i <= n THEN line[i] ELSE IF i = n + 1 THEN NUL ELSE b[i]]

(* --------------------------- status parser ---------------------------- *)
\* First index >= i of s that is not white space (Len(s) + 1 if none).
RECURSIVE SkipSpace(_, _)
SkipSpace(s, i) ==
  IF i <= Len(s) /\ IsSpace(s[i]) THEN SkipSpace(s, i + 1) ELSE i

\* Number of consecutive decimal digits of s from index i.
RECURSIVE DigitRun(_, _)
DigitRun(s, i) ==
  IF i <= Len(s) /\ s[i] \in Digits THEN 1 + DigitRun(s, i + 1) ELSE 0

\* Value of the k digits of s from index i, most significant first.
RECURSIVE DigitsValue(_, _, _, _)
DigitsValue(s, i, k, acc) ==
  IF k = 0 THEN acc
  ELSE DigitsValue(s, i + 1, k - 1, acc * 10 + DigitVal(s[i]))

\* strtoul(s, &endptr, 10) stored into an int: white space is skipped, one
\* optional sign is taken, then the digits; end is endptr - s (0 when no
\* digit was found), val the converted value, negated after a '-'.
strtoul(s) ==
  LET i == SkipSpace(s, 1)
      signed == i <= Len(s) /\ s[i] \in {"+", "-"}
      j == IF signed THEN i + 1 ELSE i
      k == DigitRun(s, j)
      v == DigitsValue(s, j, k, 0)
  IN  IF k = 0 THEN [end |-> 0, val |-> 0]
      ELSE [end |-> j + k - 1,
            val |-> IF signed /\ s[i] = "-" THEN 0 - v ELSE v]

\* smtp_get_status: the status code at the start of the buffer, or -1.
smtp_get_status(b) ==
  LET s == CStr(b)
      r == strtoul(s)
  IN  IF r.end # 3 \/ (r.end < Len(s) /\ s[r.end + 1] # SP) THEN -1
      ELSE r.val

(* ------------------------------ state --------------------------------- *)
VARIABLES
  nhosts,             \* LIST_SIZE(smtp_checker->host)
  retry,              \* checker->retry
  smtp_alert,         \* checker->rs->smtp_alert
  no_checker_emails,  \* global_data->no_checker_emails
  enabled,            \* checker->enabled
  is_up,              \* checker->is_up
  has_run,            \* checker->has_run
  alive,              \* checker->rs->alive
  retry_it,           \* checker->retry_it
  host_ctr,           \* smtp_checker->host_ctr
  host_ptr,           \* smtp_checker->host_ptr: an index of the list, or NULL
  state,              \* smtp_checker->state
  buff,               \* smtp_checker->buff
  buff_ctr,           \* smtp_checker->buff_ctr
  buff_cb,            \* smtp_checker->buff_cb
  nopen,              \* sockets of this checker that are open
  waits,              \* the scheduler's registrations for this checker
  ev,                 \* what the last callback did (observation)
  gh                  \* history of the current attempt and cycle (observation):
                      \*   trace: the I/O events of the attempt in progress
                      \*   finals: smtp_final calls for the last socket handed on
                      \*   handed: a socket was handed to smtp_check_thread
                      \*   badClose: close() was called with no socket open
                      \*   failCycles: failed cycles since the last end of list
                      \*   downsSinceUp: DOWN transitions since the last UP
                      \*   passFailed: the first host failed an attempt this pass
                      \*   statuses: the status codes parsed in the attempt
                      \*   got: the bytes read() stored for the pending receive
                      \*   again: the consecutive EAGAIN/EINTR results, modulo 2
                      \*   fails: the attempts that ended in smtp_final with an
                      \*     error since the last one that did not and since the
                      \*     last cycle was concluded
                      \*   lastCall: the last call of update_svr_checker_state
                      \*   repeat: a call of update_svr_checker_state repeated
                      \*     the state of the call before it
                      \*   lastFinal: how the last smtp_final ended and on which
                      \*     host, until the next attempt's first receive
                      \*   afterTimeout: the last attempt ended by a read timeout
                      \*     on a partly received greeting, and the next attempt
                      \*     has not read yet
                      \*   okHosts: the attempts that ended without error since
                      \*     host_ctr was last 0

cfgvars == <<nhosts, retry, smtp_alert, no_checker_emails>>
finalvars == <<retry_it, host_ctr, is_up, has_run, alive>>
sessvars == <<state, buff, buff_ctr, buff_cb>>
vars == <<nhosts, retry, smtp_alert, no_checker_emails, enabled, is_up,
          has_run, alive, retry_it, host_ctr, host_ptr, state, buff,
          buff_ctr, buff_cb, nopen, waits, ev, gh>>

(* ---------------------------- scheduler ------------------------------- *)
Delays == {"delay_loop", "delay_before_retry", "1"}

TimerReg(d) == [type |-> "timer", func |-> "smtp_connect_thread", timer |-> d]
ConnReg == [type |-> "write", func |-> "smtp_check_thread", timer |-> "connection_to"]
ReadReg == [type |-> "read", func |-> "smtp_get_line_cb", timer |-> "connection_to"]
WriteReg == [type |-> "write", func |-> "smtp_put_line_cb", timer |-> "connection_to"]

WaitRegs == {TimerReg(d) : d \in Delays} \cup {ConnReg, ReadReg, WriteReg}

NoWaits == [r \in WaitRegs |-> 0]

\* thread_add_timer(master, smtp_connect_thread, checker, d)
thread_add_timer(w, d) == [w EXCEPT ![TimerReg(d)] = @ + 1]

\* thread_add_read(master, smtp_get_line_cb, checker, fd, connection_to)
thread_add_read(w) == [w EXCEPT ![ReadReg] = @ + 1]

\* thread_add_write(master, func, checker, fd, connection_to)
thread_add_write(w, reg) == [w EXCEPT ![reg] = @ + 1]

\* thread_del_read(thread): the read wait on the thread's socket is cancelled.
thread_del_read(w) == [r \in WaitRegs |-> IF r.type = "read" THEN 0 ELSE w[r]]

\* thread_del_write(thread): the write wait on the thread's socket is cancelled.
thread_del_write(w) == [r \in WaitRegs |-> IF r.type = "write" THEN 0 ELSE w[r]]

\* The scheduler takes a registration off its lists when it runs the callback.
Fire(w, reg) == [w EXCEPT ![reg] = @ - 1]

NumWaits(w) ==
  w[TimerReg("delay_loop")] + w[TimerReg("delay_before_retry")]
  + w[TimerReg("1")] + w[ConnReg] + w[ReadReg] + w[WriteReg]

NumTimers(w) ==
  w[TimerReg("delay_loop")] + w[TimerReg("delay_before_retry")] + w[TimerReg("1")]

NumFdWaits(w) == w[ConnReg] + w[ReadReg] + w[WriteReg]

(* --------------------------- observations ----------------------------- *)
\* No status was parsed (smtp_get_status itself returns -1 or a parsed value).
NoStatus == 0 - 2

\* ev as a callback starts: nothing done yet.
EvBase ==
  [kind |-> "init", msg |-> "", final |-> 0, up |-> 0, down |-> 0,
   alert |-> 0, status |-> NoStatus, r |-> 0, len |-> 0,
   cleared |-> FALSE, was_up |-> FALSE, had_run |-> FALSE, was_host |-> 0,
   was_retry |-> 0, passed |-> <<>>, fired |-> "none", fresh |-> TRUE,
   was_alive |-> FALSE, was_state |-> "none", timer |-> "none",
   attempts |-> 0]

GhInit ==
  [trace |-> <<>>, finals |-> 0, handed |-> FALSE, badClose |-> FALSE,
   failCycles |-> 0, downsSinceUp |-> 0, passFailed |-> FALSE,
   statuses |-> <<>>, okHosts |-> <<>>, got |-> <<>>, afterTimeout |-> FALSE,
   again |-> 0, lastFinal |-> [kind |-> "none", host |-> 0],
   fails |-> 0, lastCall |-> "none", repeat |-> FALSE]

\* The state of a callback in progress: the registrations left after the
\* scheduler fired it, the attempt's trace so far, and what it observed.
Ctx(w, info) == [w |-> w, tr |-> gh.trace, sts |-> gh.statuses, info |-> info]

\* ev as the callback fired as f starts.
Fired(f) == [EvBase EXCEPT !.fired = f, !.was_state = state]

\* ev as smtp_connect_thread starts, run by its timer of delay d.
Woke(d) ==
  [Fired("timer") EXCEPT !.timer = d, !.was_host = host_ctr,
                         !.was_retry = retry_it, !.was_up = is_up,
                         !.had_run = has_run, !.was_alive = alive]

(* ------------------------- protocol constants ------------------------- *)
SMTP_START == "SMTP_START"
SMTP_HAVE_BANNER == "SMTP_HAVE_BANNER"
SMTP_SENT_HELO == "SMTP_SENT_HELO"
SMTP_RECV_HELO == "SMTP_RECV_HELO"
SMTP_SENT_QUIT == "SMTP_SENT_QUIT"
SMTP_RECV_QUIT == "SMTP_RECV_QUIT"

\* smtp_checker->helo_name
helo_name == <<"p">>

\* "HELO %s\r\n"
HeloLine == <<"H", "E", "L", "O", SP>> \o helo_name \o <<CR, LF>>

\* "QUIT\r\n"
QuitLine == <<"Q", "U", "I", "T", CR, LF>>

\* list_element() past the end of the list
NULL == 0 - 1

(* ----------------------- external collaborators ----------------------- *)
\* rs->alive after update_svr_checker_state(new, checker): a checker going
\* down takes the real server down; a checker coming up brings it up unless
\* another checker of the same real server is still failed.
AliveAfter(new, al) == IF new = "DOWN" THEN {FALSE} ELSE {TRUE, al}

\* update_svr_checker_state(new, checker): the checker's is_up becomes the
\* new state and has_run becomes true.
update_svr_checker_state(new, al) ==
  {[is_up |-> new = "UP", has_run |-> TRUE, alive |-> a] : a \in AliveAfter(new, al)}

\* tcp_socket_state(thread, smtp_check_thread): the connect-state probe.
ConnectResults ==
  {"connect_error", "connect_timeout", "connect_success", "connect_in_progress"}

\* tcp_connection_state(sd, status, thread, smtp_check_thread, timeout):
\* registers smtp_check_thread for the connect's completion and returns 0,
\* or registers nothing and returns non-zero.
ConnectionStateResults == {"registered", "failed"}

\* socket(): a descriptor, or -1.
SocketResults == {"sd", "failed"}

\* What the peer delivers to one read(): the start of a status line, or a
\* line terminator.
PeerChunks == {<<"2", "2", "0", SP>>, <<"2", "5", "0", SP>>, <<LF>>}

Take(s, n) == SubSeq(s, 1, Min(Len(s), n))

\* read(fd, buff + buff_ctr, len): -1 with EAGAIN/EINTR, -1 with another
\* errno, 0, or the number of bytes stored (at most len).
ReadResults(len) ==
  {[r |-> 0 - 1, errno |-> "EAGAIN", data |-> <<>>],
   [r |-> 0 - 1, errno |-> "ECONNRESET", data |-> <<>>],
   [r |-> 0, errno |-> "", data |-> <<>>]}
  \cup {[r |-> Len(Take(d, len)), errno |-> "", data |-> Take(d, len)] :
          d \in {x \in PeerChunks : len > 0}}

\* write(fd, buff, buff_ctr): -1 with EAGAIN/EINTR, -1 with another errno,
\* 0, or the number of bytes written.
WriteResults(n) ==
  {[w |-> 0 - 1, errno |-> "EAGAIN"], [w |-> 0 - 1, errno |-> "EPIPE"],
   [w |-> 0, errno |-> ""]}
  \cup (IF n > 0 THEN {[w |-> n, errno |-> ""]} ELSE {})

(* ------------------------------ smtp_final ---------------------------- *)
\* Mutant: one more retry than configured.
RetriesLeft_inclusive(ri, r) == ri <= r

\* checker->retry_it < checker->retry
RetriesLeft(ri, r) == ri < r

\* Mutant: the DOWN transition is made whatever the checker's state.
NeedDown_always(up, run) == TRUE

\* checker->is_up || !checker->has_run
NeedDown(up, run) == up \/ ~run

\* Mutant: the failure alert is sent whatever became of rs->alive and
\* whatever no_checker_emails says.
FailureAlert_always(al, was_up, was_alive, now_alive, no_emails) == al /\ was_up

\* rs->smtp_alert && checker_was_up &&
\*   (rs_was_alive != rs->alive || !global_data->no_checker_emails)
FailureAlert(al, was_up, was_alive, now_alive, no_emails) ==
  al /\ was_up /\ (was_alive # now_alive \/ ~no_emails)

\* Mutant: a retry waits the whole delay_loop.
RetryDelay_loop == "delay_loop"

\* checker->delay_before_retry: the delay of the timer before a retry
RetryDelay == "delay_before_retry"

\* Mutant: a failed target is skipped and the next one is probed.
HostCtrAfterFail_advance(hc) == hc + 1

\* retry_it and host_ctr when the retries are exhausted
RetryItAfterFail(ri) == 0
HostCtrAfterFail(hc) == 0

\* Mutant: the next host waits the whole delay_loop.
OkDelay_loop == "delay_loop"

\* The delay of the timer after a successful attempt: 1
OkDelay == "1"

\* Mutant: a successful attempt skips the next host of the list.
HostCtrAfterOk_skip(hc) == hc + 2

\* Mutant: a successful attempt leaves retry_it as incremented.
RetryItAfterOk_kept(ri) == ri

\* retry_it and host_ctr after a successful attempt
RetryItAfterOk(ri) == 0
HostCtrAfterOk(hc) == hc + 1

\* close(fd): the number of open sockets after it.
Close(n) == IF n > 0 THEN n - 1 ELSE 0

\* The events of a successful attempt, in order.
ExpectedTrace ==
  <<"recv", "line", "send_helo", "sent", "recv", "line", "send_quit", "sent",
    "recv", "line", "final_ok">>

\* The record of an attempt on the host hc that ended without error: the
\* status codes it parsed and whether it went through the whole dialogue.
OkAttempt(hc, c) ==
  [host |-> hc, statuses |-> c.sts, full |-> Append(c.tr, "final_ok") = ExpectedTrace]

\* The attempts without error since host_ctr was last 0, as host_ctr becomes hc.
OkHostsAfter(hc, oks) == IF hc = 0 THEN <<>> ELSE oks

\* smtp_final(thread, error, format, ...) called in the callback c.
smtp_final(error, msg, c) ==
  LET ri == retry_it + 1
      e0 == [c.info EXCEPT !.final = @ + 1, !.msg = msg, !.was_up = is_up,
                           !.had_run = has_run, !.was_host = host_ctr,
                           !.was_retry = retry_it, !.was_alive = alive,
                           !.attempts = IF error THEN gh.fails + 1 ELSE 0]
      g0 == [gh EXCEPT !.finals = Min(@ + 1, 2),
                       !.badClose = @ \/ nopen = 0,
                       !.trace = Append(c.tr, IF error THEN "final_err" ELSE "final_ok"),
                       !.statuses = c.sts, !.got = <<>>, !.again = 0,
                       !.afterTimeout = /\ c.info.fired = "read_timeout"
                                        /\ state = SMTP_HAVE_BANNER
                                        /\ buff_ctr > 0]
  IN
  /\ nopen' = Close(nopen)
  /\ IF error /\ RetriesLeft(ri, retry) THEN
       /\ retry_it' = ri
       /\ waits' = thread_add_timer(c.w, RetryDelay)
       /\ UNCHANGED <<host_ctr, is_up, has_run, alive>>
       /\ ev' = [e0 EXCEPT !.kind = "final_retry"]
       /\ gh' = [g0 EXCEPT !.passFailed = @ \/ host_ctr = 0,
                            !.fails = Min(@ + 1, MaxRetry + 2),
                            !.lastFinal = [kind |-> "final_retry", host |-> host_ctr]]
     ELSE IF error THEN
       /\ retry_it' = RetryItAfterFail(ri)
       /\ host_ctr' = HostCtrAfterFail(host_ctr)
       /\ IF NeedDown(is_up, has_run) THEN
            \E u \in update_svr_checker_state("DOWN", alive) :
              /\ is_up' = u.is_up
              /\ has_run' = u.has_run
              /\ alive' = u.alive
              /\ ev' = [e0 EXCEPT
                          !.kind = "final_exhausted", !.down = @ + 1,
                          !.alert = IF FailureAlert(smtp_alert, is_up, alive,
                                                    u.alive, no_checker_emails)
                                    THEN @ + 1 ELSE @]
              /\ gh' = [g0 EXCEPT !.failCycles = Min(@ + 1, 2),
                                  !.downsSinceUp = Min(@ + 1, 2),
                                  !.okHosts = OkHostsAfter(host_ctr', @),
                                  !.fails = 0,
                                  !.lastCall = "DOWN",
                                  !.repeat = @ \/ gh.lastCall = "DOWN",
                                  !.lastFinal = [kind |-> "final_exhausted",
                                                 host |-> host_ctr]]
          ELSE
            /\ UNCHANGED <<is_up, has_run, alive>>
            /\ ev' = [e0 EXCEPT !.kind = "final_exhausted"]
            /\ gh' = [g0 EXCEPT !.failCycles = Min(@ + 1, 2),
                                !.okHosts = OkHostsAfter(host_ctr', @),
                                !.fails = 0,
                                !.lastFinal = [kind |-> "final_exhausted",
                                               host |-> host_ctr]]
       /\ waits' = thread_add_timer(c.w, "delay_loop")
     ELSE
       /\ retry_it' = RetryItAfterOk(ri)
       /\ host_ctr' = HostCtrAfterOk(host_ctr)
       /\ waits' = thread_add_timer(c.w, OkDelay)
       /\ UNCHANGED <<is_up, has_run, alive>>
       /\ ev' = [e0 EXCEPT !.kind = "final_ok"]
       /\ gh' = [g0 EXCEPT
                   !.okHosts = OkHostsAfter(host_ctr', Append(@, OkAttempt(host_ctr, c))),
                   !.lastFinal = [kind |-> "final_ok", host |-> host_ctr],
                   !.fails = 0]

(* --------------------------- socket I/O driver ------------------------ *)
\* The session fields as a callback leaves them when it sets none itself.
Sess(st, b, n) == state' = st /\ buff' = b /\ buff_ctr' = n /\ UNCHANGED buff_cb

\* The name of an outbound line, for the attempt's trace.
SendEvent(b) ==
  IF CStr(b) = HeloLine THEN "send_helo"
  ELSE IF CStr(b) = QuitLine THEN "send_quit" ELSE "send_other"

\* Mutant: smtp_get_line without smtp_clear_buff.
smtp_get_line_noclear(st, c) ==
  /\ state' = st
  /\ UNCHANGED <<buff, buff_ctr>>
  /\ buff_cb' = "smtp_engine_thread"
  /\ waits' = thread_del_write(thread_add_read(c.w))
  /\ UNCHANGED <<finalvars, nopen>>
  /\ ev' = [c.info EXCEPT !.kind = "get_line"]
  /\ gh' = [gh EXCEPT !.trace = Append(c.tr, "recv"), !.statuses = c.sts,
                       !.got = <<>>, !.again = 0,
                       !.lastFinal = [kind |-> "none", host |-> 0]]

\* smtp_get_line(thread, smtp_engine_thread), with smtp_checker->state = st.
smtp_get_line(st, c) ==
  /\ state' = st
  /\ buff' = ClearedBuff
  /\ buff_ctr' = 0
  /\ buff_cb' = "smtp_engine_thread"
  /\ waits' = thread_del_write(thread_add_read(c.w))
  /\ UNCHANGED <<finalvars, nopen>>
  /\ ev' = [c.info EXCEPT !.kind = "get_line"]
  /\ gh' = [gh EXCEPT !.trace = Append(c.tr, "recv"), !.statuses = c.sts,
                       !.got = <<>>, !.again = 0,
                       !.lastFinal = [kind |-> "none", host |-> 0]]

\* smtp_put_line(thread, smtp_engine_thread), with smtp_checker->state = st
\* and the outbound line already formatted into b.
smtp_put_line(st, b, c) ==
  /\ state' = st
  /\ buff' = Terminate(b)
  /\ buff_ctr' = StrLen(Terminate(b))
  /\ buff_cb' = "smtp_engine_thread"
  /\ waits' = thread_del_read(thread_add_write(c.w, WriteReg))
  /\ UNCHANGED <<finalvars, nopen>>
  /\ ev' = [c.info EXCEPT !.kind = "put_line"]
  /\ gh' = [gh EXCEPT !.trace = Append(c.tr, SendEvent(Terminate(b))),
                       !.statuses = c.sts, !.got = <<>>, !.afterTimeout = FALSE,
                       !.again = 0]

(* ------------------------- protocol state machine --------------------- *)
\* case SMTP_START
engine_start(c) == smtp_get_line(SMTP_HAVE_BANNER, c)

\* case SMTP_HAVE_BANNER
engine_have_banner(st, b, n, c) ==
  LET status == smtp_get_status(b)
      c1 == [c EXCEPT !.info.status = status, !.sts = Append(@, status)]
  IN  IF status # 220
      THEN smtp_final(TRUE, "Bad greeting banner", c1) /\ Sess(st, b, n)
      ELSE smtp_put_line(SMTP_SENT_HELO, Snprintf(b, HeloLine), c1)

\* Mutant: the HELO reply is awaited in the state of the QUIT reply.
engine_sent_helo_skip(c) == smtp_get_line(SMTP_RECV_QUIT, c)

\* case SMTP_SENT_HELO
engine_sent_helo(c) == smtp_get_line(SMTP_RECV_HELO, c)

\* case SMTP_RECV_HELO
engine_recv_helo(st, b, n, c) ==
  LET status == smtp_get_status(b)
      c1 == [c EXCEPT !.info.status = status, !.sts = Append(@, status)]
  IN  IF status # 250
      THEN smtp_final(TRUE, "Bad HELO response", c1) /\ Sess(st, b, n)
      ELSE smtp_put_line(SMTP_SENT_QUIT, Snprintf(b, QuitLine), c1)

\* case SMTP_SENT_QUIT
engine_sent_quit(c) == smtp_get_line(SMTP_RECV_QUIT, c)

\* Mutant: the QUIT reply must carry the status 221.
engine_recv_quit_checked(st, b, n, c) ==
  LET status == smtp_get_status(b)
      c1 == [c EXCEPT !.info.status = status]
  IN  smtp_final(status # 221, IF status # 221 THEN "Bad QUIT response" ELSE "", c1)
      /\ Sess(st, b, n)

\* case SMTP_RECV_QUIT
engine_recv_quit(st, b, n, c) == smtp_final(FALSE, "", c) /\ Sess(st, b, n)

\* smtp_engine_thread(thread) with smtp_checker->state = st, the buffer b
\* and the fill cursor n.
smtp_engine_thread(st, b, n, c) ==
  CASE st = SMTP_START -> engine_start(c)
    [] st = SMTP_HAVE_BANNER -> engine_have_banner(st, b, n, c)
    [] st = SMTP_SENT_HELO -> engine_sent_helo(c)
    [] st = SMTP_RECV_HELO -> engine_recv_helo(st, b, n, c)
    [] st = SMTP_SENT_QUIT -> engine_sent_quit(c)
    [] st = SMTP_RECV_QUIT -> engine_recv_quit(st, b, n, c)
    [] OTHER -> smtp_final(TRUE, "Unknown smtp engine state encountered", c)
                /\ Sess(st, b, n)

\* (smtp_checker->buff_cb)(thread)
Callback(cb, st, b, n, c) ==
  cb = "smtp_engine_thread" /\ smtp_engine_thread(st, b, n, c)

(* ------------------------------ callbacks ----------------------------- *)
\* Mutant: every read() is given the whole capacity as its length.
ReadLen_whole(n) == SMTP_BUFF_MAX

\* SMTP_BUFF_MAX - smtp_checker->buff_ctr: the length given to read()
ReadLen(n) == SMTP_BUFF_MAX - n

\* smtp_checker->buff_ctr > SMTP_BUFF_MAX: the buffer is wrapped by clearing.
BufferFull(n) == n > SMTP_BUFF_MAX

\* Mutant: no return after smtp_final; the read is registered again.
read_failure_fallthrough(b, n, c) ==
  smtp_final(TRUE, "Read failure", [c EXCEPT !.w = thread_add_read(@)])
  /\ Sess(state, b, n)

\* if (r <= 0) { smtp_final(thread, 1, "Read failure ..."); return 0; }
read_failure(b, n, c) == smtp_final(TRUE, "Read failure", c) /\ Sess(state, b, n)

\* smtp_get_line_cb, fired as THREAD_READ_TIMEOUT.
smtp_get_line_cb_timeout ==
  /\ waits[ReadReg] > 0
  /\ smtp_final(TRUE, "Read timeout", Ctx(Fire(waits, ReadReg), Fired("read_timeout")))
  /\ UNCHANGED <<sessvars, host_ptr, enabled, cfgvars>>

\* smtp_get_line_cb, fired as ready to read.
smtp_get_line_cb_ready ==
  /\ waits[ReadReg] > 0
  /\ LET w == Fire(waits, ReadReg)
         over == BufferFull(buff_ctr)
         b1 == IF over THEN ClearedBuff ELSE buff
         n1 == IF over THEN 0 ELSE buff_ctr
         g1 == IF over THEN <<>> ELSE gh.got
         len == ReadLen(n1)
     IN  \E rr \in ReadResults(len) :
           LET b2 == IF rr.r > 0 THEN StoreAt(b1, n1, rr.data) ELSE b1
               n2 == IF rr.r > 0 THEN n1 + rr.r ELSE n1
               g2 == g1 \o rr.data
               seen == [Fired("read_ready") EXCEPT
                          !.fresh = b2 = StoreAt(ClearedBuff, 0, g2) /\ n2 = Len(g2)]
               info == [seen EXCEPT !.r = rr.r, !.len = len, !.cleared = over]
               c == Ctx(w, info)
           IN  IF rr.r = 0 - 1 /\ rr.errno \in {"EAGAIN", "EINTR"} THEN
                 /\ waits' = thread_add_read(w)
                 /\ Sess(state, b1, n1)
                 /\ UNCHANGED <<finalvars, nopen>>
                 /\ gh' = [gh EXCEPT !.got = g1, !.afterTimeout = FALSE,
                                     !.again = 1 - @]
                 /\ ev' = [seen EXCEPT !.kind = "read_again"]
               ELSE IF HasNewline(b2) THEN
                 Callback(buff_cb, state, Terminate(b2), n2,
                          [c EXCEPT !.tr = Append(@, "line")])
               ELSE IF rr.r <= 0 THEN
                 read_failure(b2, n2, c)
               ELSE
                 /\ waits' = thread_add_read(w)
                 /\ Sess(state, b2, n2)
                 /\ UNCHANGED <<finalvars, nopen>>
                 /\ gh' = [gh EXCEPT !.got = g2, !.afterTimeout = FALSE,
                                     !.again = 0]
                 /\ ev' = [seen EXCEPT !.kind = "read_more"]
  /\ UNCHANGED <<host_ptr, enabled, cfgvars>>

\* smtp_put_line_cb, fired as THREAD_WRITE_TIMEOUT.
smtp_put_line_cb_timeout ==
  /\ waits[WriteReg] > 0
  /\ smtp_final(TRUE, "Write timeout", Ctx(Fire(waits, WriteReg), Fired("write_timeout")))
  /\ UNCHANGED <<sessvars, host_ptr, enabled, cfgvars>>

\* smtp_put_line_cb, fired as ready to write.
smtp_put_line_cb_ready ==
  /\ waits[WriteReg] > 0
  /\ LET w == Fire(waits, WriteReg)
     IN  \E wr \in WriteResults(buff_ctr) :
           LET info == [Fired("write_ready") EXCEPT !.r = wr.w, !.len = buff_ctr]
               c == Ctx(w, info)
           IN  IF wr.w = 0 - 1 /\ wr.errno \in {"EAGAIN", "EINTR"} THEN
                 /\ waits' = thread_add_write(w, WriteReg)
                 /\ UNCHANGED <<sessvars, finalvars, nopen>>
                 /\ gh' = [gh EXCEPT !.again = 1 - @]
                 /\ ev' = [Fired("write_ready") EXCEPT !.kind = "write_again"]
               ELSE IF wr.w <= 0 THEN
                 smtp_final(TRUE, "Write failure", c) /\ UNCHANGED sessvars
               ELSE
                 Callback(buff_cb, state, buff, buff_ctr,
                          [c EXCEPT !.tr = Append(@, "sent")])
  /\ UNCHANGED <<host_ptr, enabled, cfgvars>>

\* Mutant: no break after the connect_timeout case; the connect_success
\* case runs after smtp_final and schedules the greeting receive.
smtp_check_thread_status_nobreak(status, c) ==
  CASE status = "connect_error" ->
         smtp_final(TRUE, "Error connecting to server", c) /\ UNCHANGED sessvars
    [] status = "connect_timeout" ->
         /\ smtp_final(TRUE, "Connection timeout to server",
                       [c EXCEPT !.w = thread_del_write(thread_add_read(@))])
         /\ state' = SMTP_HAVE_BANNER
         /\ buff' = ClearedBuff
         /\ buff_ctr' = 0
         /\ buff_cb' = "smtp_engine_thread"
    [] status = "connect_success" ->
         smtp_engine_thread(SMTP_START, buff, buff_ctr, c)
    [] OTHER ->
         smtp_final(TRUE, "Unknown connection error to server", c)
         /\ UNCHANGED sessvars

\* Mutant: the engine is entered with smtp_checker->state as the last
\* attempt left it.
smtp_check_thread_status_noreset(status, c) ==
  CASE status = "connect_error" ->
         smtp_final(TRUE, "Error connecting to server", c) /\ UNCHANGED sessvars
    [] status = "connect_timeout" ->
         smtp_final(TRUE, "Connection timeout to server", c) /\ UNCHANGED sessvars
    [] status = "connect_success" ->
         smtp_engine_thread(state, buff, buff_ctr, c)
    [] OTHER ->
         smtp_final(TRUE, "Unknown connection error to server", c)
         /\ UNCHANGED sessvars

\* smtp_check_thread with the probe's result status.
smtp_check_thread_status(status, c) ==
  CASE status = "connect_error" ->
         smtp_final(TRUE, "Error connecting to server", c) /\ UNCHANGED sessvars
    [] status = "connect_timeout" ->
         smtp_final(TRUE, "Connection timeout to server", c) /\ UNCHANGED sessvars
    [] status = "connect_success" ->
         smtp_engine_thread(SMTP_START, buff, buff_ctr, c)
    [] OTHER ->
         smtp_final(TRUE, "Unknown connection error to server", c)
         /\ UNCHANGED sessvars

\* smtp_check_thread: the connection result handler.
smtp_check_thread ==
  /\ waits[ConnReg] > 0
  /\ \E status \in ConnectResults :
       smtp_check_thread_status(status, Ctx(Fire(waits, ConnReg), Fired("connect")))
  /\ UNCHANGED <<host_ptr, enabled, cfgvars>>

(* -------------------------- connect orchestrator ---------------------- *)
\* list_element(smtp_checker->host, n): the n-th host, or NULL past the end.
list_element(n) == IF n < nhosts THEN n ELSE NULL

\* Mutant: the test of the UP transition is inverted.
NeedUp_inverted(up, run) == up \/ ~run

\* Mutant: the UP transition is made whatever the checker's state.
NeedUp_always(up, run) == TRUE

\* !checker->is_up || !checker->has_run
NeedUp(up, run) == ~up \/ ~run

\* rs->smtp_alert && !checker_was_up &&
\*   (rs_was_alive != rs->alive || !global_data->no_checker_emails)
SuccessAlert(al, was_up, was_alive, now_alive, no_emails) ==
  al /\ ~was_up /\ (was_alive # now_alive \/ ~no_emails)

\* Mutant: the end-of-list branch leaves host_ctr past the end.
HostCtrAfterEnd_kept(hc) == hc

\* retry_it and host_ctr as the end-of-list branch leaves them
RetryItAfterEnd(ri) == 0
HostCtrAfterEnd(hc) == 0

\* Mutant: the disabled checker polls its flag every tick.
DisabledDelay_short == "1"

\* checker->delay_loop: the delay of the timer of a disabled checker
DisabledDelay == "delay_loop"

\* Mutant: the disabled checker returns without registering itself again.
smtp_connect_thread_disabled_lost ==
  \E d \in Delays :
    /\ waits[TimerReg(d)] > 0
    /\ ~enabled
    /\ waits' = Fire(waits, TimerReg(d))
    /\ ev' = [Woke(d) EXCEPT !.kind = "disabled"]
    /\ gh' = [gh EXCEPT !.trace = <<>>, !.statuses = <<>>]
    /\ UNCHANGED <<cfgvars, enabled, finalvars, host_ptr, sessvars, nopen>>

\* smtp_connect_thread while the checker is disabled.
smtp_connect_thread_disabled ==
  \E d \in Delays :
    /\ waits[TimerReg(d)] > 0
    /\ ~enabled
    /\ waits' = thread_add_timer(Fire(waits, TimerReg(d)), DisabledDelay)
    /\ ev' = [Woke(d) EXCEPT !.kind = "disabled"]
    /\ gh' = [gh EXCEPT !.trace = <<>>, !.statuses = <<>>]
    /\ UNCHANGED <<cfgvars, enabled, finalvars, host_ptr, sessvars, nopen>>

\* smtp_connect_thread with host_ctr past the end of the list.
smtp_connect_thread_end_of_list ==
  \E d \in Delays :
    /\ waits[TimerReg(d)] > 0
    /\ enabled
    /\ list_element(host_ctr) = NULL
    /\ retry_it' = RetryItAfterEnd(retry_it)
    /\ host_ctr' = HostCtrAfterEnd(host_ctr)
    /\ LET e0 == [Woke(d) EXCEPT !.kind = "end_of_list", !.passed = gh.okHosts]
       IN  IF NeedUp(is_up, has_run) THEN
             \E u \in update_svr_checker_state("UP", alive) :
               /\ is_up' = u.is_up
               /\ has_run' = u.has_run
               /\ alive' = u.alive
               /\ ev' = [e0 EXCEPT
                           !.up = @ + 1,
                           !.alert = IF SuccessAlert(smtp_alert, is_up, alive,
                                                     u.alive, no_checker_emails)
                                     THEN @ + 1 ELSE @]
               /\ gh' = [gh EXCEPT !.trace = <<>>, !.statuses = <<>>,
                                   !.failCycles = 0, !.downsSinceUp = 0,
                                   !.lastCall = "UP",
                                   !.repeat = @ \/ gh.lastCall = "UP",
                                   !.okHosts = OkHostsAfter(host_ctr', @)]
           ELSE
             /\ UNCHANGED <<is_up, has_run, alive>>
             /\ ev' = e0
             /\ gh' = [gh EXCEPT !.trace = <<>>, !.statuses = <<>>,
                                 !.failCycles = 0,
                                 !.okHosts = OkHostsAfter(host_ctr', @)]
    /\ host_ptr' = list_element(0)
    /\ waits' = thread_add_timer(Fire(waits, TimerReg(d)), "delay_loop")
    /\ UNCHANGED <<cfgvars, enabled, sessvars, nopen>>

\* Mutant: a failure of socket() is counted as a failed attempt.
smtp_connect_thread_socket_failed_counted ==
  \E d \in Delays :
    /\ waits[TimerReg(d)] > 0
    /\ enabled
    /\ list_element(host_ctr) # NULL
    /\ "failed" \in SocketResults
    /\ host_ptr' = list_element(host_ctr)
    /\ retry_it' = Min(retry_it + 1, MaxRetry)
    /\ waits' = thread_add_timer(Fire(waits, TimerReg(d)), "delay_loop")
    /\ ev' = [Woke(d) EXCEPT !.kind = "socket_failed"]
    /\ gh' = [gh EXCEPT !.trace = <<>>, !.statuses = <<>>]
    /\ UNCHANGED <<cfgvars, enabled, host_ctr, is_up, has_run, alive, sessvars, nopen>>

\* smtp_connect_thread when socket() fails.
smtp_connect_thread_socket_failed ==
  \E d \in Delays :
    /\ waits[TimerReg(d)] > 0
    /\ enabled
    /\ list_element(host_ctr) # NULL
    /\ "failed" \in SocketResults
    /\ host_ptr' = list_element(host_ctr)
    /\ waits' = thread_add_timer(Fire(waits, TimerReg(d)), "delay_loop")
    /\ ev' = [Woke(d) EXCEPT !.kind = "socket_failed"]
    /\ gh' = [gh EXCEPT !.trace = <<>>, !.statuses = <<>>]
    /\ UNCHANGED <<cfgvars, enabled, finalvars, sessvars, nopen>>

\* Mutant: the bind-failure branch does not close the new socket.
BindFailedOpen_leak(n) == n + 1

\* The open sockets after the bind-failure branch: the new socket is closed.
BindFailedOpen(n) == Close(n + 1)

\* smtp_connect_thread when tcp_connection_state() reports a failure.
smtp_connect_thread_bind_failed ==
  \E d \in Delays :
    /\ waits[TimerReg(d)] > 0
    /\ enabled
    /\ list_element(host_ctr) # NULL
    /\ "failed" \in ConnectionStateResults
    /\ host_ptr' = list_element(host_ctr)
    /\ nopen' = BindFailedOpen(nopen)
    /\ waits' = thread_add_timer(Fire(waits, TimerReg(d)), "delay_loop")
    /\ ev' = [Woke(d) EXCEPT !.kind = "bind_failed"]
    /\ gh' = [gh EXCEPT !.trace = <<>>, !.statuses = <<>>]
    /\ UNCHANGED <<cfgvars, enabled, finalvars, sessvars>>

\* smtp_connect_thread when the socket is handed to smtp_check_thread.
smtp_connect_thread_connecting ==
  \E d \in Delays :
    /\ waits[TimerReg(d)] > 0
    /\ enabled
    /\ list_element(host_ctr) # NULL
    /\ "registered" \in ConnectionStateResults
    /\ host_ptr' = list_element(host_ctr)
    /\ nopen' = nopen + 1
    /\ waits' = thread_add_write(Fire(waits, TimerReg(d)), ConnReg)
    /\ ev' = [Woke(d) EXCEPT !.kind = "connecting"]
    /\ gh' = [gh EXCEPT
                !.trace = <<>>, !.statuses = <<>>, !.finals = 0, !.handed = TRUE,
                !.passFailed = IF host_ctr = 0 /\ retry_it = 0 THEN FALSE ELSE @]
    /\ UNCHANGED <<cfgvars, enabled, finalvars, sessvars>>

\* smtp_connect_thread: the connect orchestrator.
smtp_connect_thread ==
  \/ smtp_connect_thread_disabled
  \/ smtp_connect_thread_end_of_list
  \/ smtp_connect_thread_socket_failed
  \/ smtp_connect_thread_bind_failed
  \/ smtp_connect_thread_connecting

(* ----------------------------- environment ---------------------------- *)
\* The checker framework enables or disables the checker.  The flag is read
\* by smtp_connect_thread only, as it starts: a change made while a wait on
\* the socket is pending is seen as one made once the attempt has ended.
SetEnabled ==
  /\ NumTimers(waits) > 0
  /\ enabled' = ~enabled
  /\ UNCHANGED <<cfgvars, finalvars, host_ptr, sessvars, nopen, waits, ev, gh>>

(* --------------------------- specification ---------------------------- *)
\* The checker as queue_checker() and the start of the check daemon leave
\* it: nothing probed yet, one timer pending for smtp_connect_thread; the
\* checker starts up with its real server alive, or (alpha mode) down with
\* its real server not alive.
Init ==
  /\ nhosts \in {1, MaxHosts}
  /\ retry \in 0..MaxRetry
  /\ smtp_alert \in BOOLEAN
  /\ no_checker_emails \in BOOLEAN
  /\ enabled = TRUE
  /\ is_up \in BOOLEAN
  /\ has_run = FALSE
  /\ alive = is_up
  /\ retry_it = 0
  /\ host_ctr = 0
  /\ host_ptr = NULL
  /\ state = SMTP_START
  /\ buff = ClearedBuff
  /\ buff_ctr = 0
  /\ buff_cb = "NULL"
  /\ nopen = 0
  /\ waits = thread_add_timer(NoWaits, "delay_loop")
  /\ ev = EvBase
  /\ gh = GhInit

Next ==
  \/ smtp_connect_thread
  \/ smtp_check_thread
  \/ smtp_get_line_cb_timeout
  \/ smtp_get_line_cb_ready
  \/ smtp_put_line_cb_timeout
  \/ smtp_put_line_cb_ready
  \/ SetEnabled

Spec == Init /\ [][Next]_vars

\* The scheduler runs what is registered: a pending timer expires, a pending
\* wait on the socket fires, as ready or as a timeout.  Nothing is assumed
\* of the checker framework (SetEnabled) or of what read() and write() return.
SchedulerFairness ==
  /\ WF_vars(smtp_connect_thread)
  /\ WF_vars(smtp_check_thread)
  /\ WF_vars(smtp_get_line_cb_ready \/ smtp_get_line_cb_timeout)
  /\ WF_vars(smtp_put_line_cb_ready \/ smtp_put_line_cb_timeout)

\* The alert settings and the health state at start change no registration:
\* the fair behaviours are explored with alerts on, checker e-mails not
\* suppressed, a checker that starts up, and the two ends of the retry range
\* (never retry, and the most retries).
InitFair ==
  /\ Init
  /\ smtp_alert /\ ~no_checker_emails
  /\ is_up
  /\ retry \in {0, MaxRetry}

SpecFair == InitFair /\ [][Next]_vars /\ SchedulerFairness

(* ------------------- the status parser on its own --------------------- *)
\* A buffer holding the content s and NULs after it.
Padded(s) == StoreAt(ClearedBuff, 0, s)

ParseContents == UNION {[1..n -> ParseAlphabet] : n \in 0..MaxLen}

InitParse ==
  /\ nhosts = 1
  /\ retry = 1
  /\ smtp_alert = FALSE
  /\ no_checker_emails = FALSE
  /\ enabled = TRUE
  /\ is_up = TRUE
  /\ has_run = FALSE
  /\ alive = TRUE
  /\ retry_it = 0
  /\ host_ctr = 0
  /\ host_ptr = 0
  /\ state = SMTP_HAVE_BANNER
  /\ buff \in {Terminate(Padded(s)) : s \in ParseContents}
  /\ buff_ctr = StrLen(buff)
  /\ buff_cb = "smtp_engine_thread"
  /\ nopen = 1
  /\ waits = NoWaits
  /\ ev = EvBase
  /\ gh = GhInit

\* smtp_get_status(thread) on the buffer as it stands.
ParseStatus ==
  /\ ev.kind = "init"
  /\ ev' = [EvBase EXCEPT !.kind = "status", !.status = smtp_get_status(buff)]
  /\ UNCHANGED <<cfgvars, enabled, finalvars, host_ptr, sessvars, nopen, waits, gh>>

NextParse == ParseStatus

SpecParse == InitParse /\ [][NextParse]_vars

(* =============================== claims =============================== *)
FinalKinds == {"final_retry", "final_exhausted", "final_ok"}

\* C1: a full failing cycle (retries exhausted) leaves host_ctr and retry_it
\* at 0 and is the one DOWN transition since the last UP; a second
\* consecutive failing cycle makes no DOWN transition and sends no alert.
C1_FailingCycle ==
  ev.kind = "final_exhausted" =>
    /\ host_ctr = 0
    /\ retry_it = 0
    /\ gh.downsSinceUp = 1
    /\ ev.down = (IF ev.was_up \/ ~ev.had_run THEN 1 ELSE 0)
    /\ (gh.failCycles >= 2 => ev.down = 0 /\ ev.alert = 0)

\* C1 witness: the second consecutive failing cycle, with several targets.
C1_Witness ==
  ev.kind = "final_exhausted" /\ gh.failCycles = 2 /\ nhosts >= 2 /\ ev.down = 0

\* C2 as stated: when the first of N >= 2 targets fails (its retries are
\* exhausted), the engine advances to the second target and makes no
\* health-state transition.
C2_Original ==
  (nhosts >= 2 /\ ev.kind = "final_exhausted" /\ ev.was_host = 0) =>
    (host_ctr = 1 /\ ev.down = 0)

\* C2 (amended): the target index advances only by a successful attempt (a
\* failed attempt keeps it while retries remain and resets it to 0 with the
\* down decision once they are exhausted); when the index passes the end of
\* the list exactly one UP transition is made if the checker was down or had
\* never run, none otherwise, and never a DOWN; no other callback makes a
\* health-state transition.
C2_Amended ==
  /\ ev.kind = "end_of_list" =>
       /\ ev.was_host = nhosts
       /\ ev.down = 0
       /\ ev.up = (IF ~ev.was_up \/ ~ev.had_run THEN 1 ELSE 0)
  /\ ev.kind = "final_ok" => host_ctr = ev.was_host + 1
  /\ ev.kind = "final_retry" => host_ctr = ev.was_host
  /\ ev.kind = "final_exhausted" => host_ctr = 0 /\ ev.up = 0
  /\ ev.kind \notin {"end_of_list", "final_exhausted"} => ev.up = 0 /\ ev.down = 0

\* C2 witness: with N >= 2 targets the first target failed an attempt, was
\* retried with success, the second succeeded, and the end-of-list branch
\* made the one UP transition.
C2_Witness ==
  ev.kind = "end_of_list" /\ nhosts >= 2 /\ gh.passFailed /\ ev.up = 1

\* smtp_checker->state while the k-th event of the attempt is pending.
StateAt(k) ==
  CASE k = 1 -> SMTP_HAVE_BANNER
    [] k = 3 -> SMTP_SENT_HELO
    [] k = 5 -> SMTP_RECV_HELO
    [] k = 7 -> SMTP_SENT_QUIT
    [] k = 9 -> SMTP_RECV_QUIT
    [] OTHER -> "none"

\* C3: the events of an attempt are a prefix of: receive, line, send HELO,
\* sent, receive, line, send QUIT, sent, receive, line, final without error
\* (or such a prefix ended by a final with error); a receive is pending
\* only after a receive was requested, a send only after a send was, and
\* the protocol state is the one of the attempt's progress.
C3_EventOrder ==
  LET t == gh.trace
      n == Len(t)
      body == IF n > 0 /\ t[n] = "final_err" THEN SubSeq(t, 1, n - 1) ELSE t
      k == Len(body)
  IN  /\ k <= Len(ExpectedTrace)
      /\ body = SubSeq(ExpectedTrace, 1, k)
      /\ waits[ReadReg] > 0 => k \in {1, 5, 9} /\ state = StateAt(k) /\ waits[WriteReg] = 0
      /\ waits[WriteReg] > 0 => k \in {3, 7} /\ state = StateAt(k) /\ waits[ReadReg] = 0
      /\ ev.kind = "final_ok" => t = ExpectedTrace /\ state = SMTP_RECV_QUIT

\* C3 witness: a whole successful attempt.
C3_Witness == ev.kind = "final_ok" /\ gh.trace = ExpectedTrace

\* The status the claim gives the content s: the number spelled by exactly
\* three digits followed by a space or the end of the content, else -1.
ClaimedStatus(s) ==
  IF /\ Len(s) >= 3
     /\ \A i \in 1..3 : s[i] \in Digits
     /\ (Len(s) = 3 \/ s[4] = SP)
  THEN DigitsValue(s, 1, 3, 0)
  ELSE 0 - 1

\* C4 as stated: smtp_get_status returns n exactly when the content starts
\* with three digits spelling n followed by a space or the end, and -1 for
\* every other content.
C4_StatusParser ==
  ev.kind = "status" => ev.status = ClaimedStatus(CStr(buff))

\* C5 as stated: a peer that fills the buffer without a line terminator
\* never ends the attempt with a read failure: no "Read failure" comes from
\* a read() of length 0 on the full buffer.
C5_NoFullBufferFailure ==
  ~(ev.kind \in FinalKinds /\ ev.msg = "Read failure" /\ ev.len = 0 /\ ev.r = 0)

\* C6: retry_it is within 0..retry in every state, is 0 after a successful
\* attempt, after the retries are exhausted and after the end of the list,
\* and a retry leaves it incremented by one and below the limit.
C6_RetryCounter ==
  /\ retry_it \in 0..retry
  /\ ev.kind \in {"final_ok", "final_exhausted", "end_of_list"} => retry_it = 0
  /\ ev.kind = "final_retry" => retry_it = ev.was_retry + 1 /\ retry_it < retry

\* C6 witness: a success after a failed attempt resets the counter.
C6_Witness == ev.kind = "final_ok" /\ ev.was_retry > 0 /\ retry_it = 0

\* C7: at most one socket is open; while a timer of smtp_connect_thread is
\* pending no socket is open and no wait on a socket is registered, so the
\* orchestrator never opens a socket beside an earlier one.
C7_OneSocket ==
  /\ nopen <= 1
  /\ NumTimers(waits) > 0 => nopen = 0 /\ NumFdWaits(waits) = 0
  /\ NumFdWaits(waits) > 0 => nopen = 1

\* C7 witness: a socket opened for a retry, after a bind failure.
C7_Witness == ev.kind = "connecting" /\ nopen = 1 /\ gh.finals = 0 /\ retry_it > 0

\* C8: smtp_final is called once for every socket handed to
\* smtp_check_thread, never twice, never on a closed socket, at most once
\* in a callback; the socket stays open until then and is closed after.
C8_FinalOnce ==
  /\ gh.finals <= 1
  /\ ev.final <= 1
  /\ ~gh.badClose
  /\ NumFdWaits(waits) > 0 => gh.finals = 0 /\ nopen = 1
  /\ (gh.handed /\ NumTimers(waits) > 0) => gh.finals = 1 /\ nopen = 0
  /\ ev.kind \in FinalKinds => ev.final = 1
  /\ ev.kind = "final_retry" => retry_it = ev.was_retry + 1

\* C8 witness: the probe answered in-progress, and smtp_final ran once.
C8_Witness ==
  /\ ev.kind = "final_retry"
  /\ ev.msg = "Unknown connection error to server"
  /\ gh.finals = 1
  /\ nopen = 0

\* C9: at most one registration (read wait, write wait or timer) exists
\* for the checker after any callback.
C9_OneWait == NumWaits(waits) <= 1

\* C9 witness: a send registered from the read callback; the read is gone.
C9_Witness == ev.kind = "put_line" /\ waits[WriteReg] = 1 /\ waits[ReadReg] = 0

\* C10: host_ctr is within 0..nhosts; it is past the end only after the
\* success of the last target and until the next enabled run of
\* smtp_connect_thread, which sees it there and resets it to 0.
C10_TargetIndex ==
  /\ host_ctr \in 0..nhosts
  /\ host_ctr = nhosts =>
       /\ ev.kind \in {"final_ok", "disabled"}
       /\ NumFdWaits(waits) = 0
       /\ nopen = 0
  /\ ev.kind = "end_of_list" => ev.was_host = nhosts /\ host_ctr = 0
  /\ ev.kind \in {"socket_failed", "bind_failed", "connecting"} => ev.was_host < nhosts

\* C10 witness: the end-of-list branch saw host_ctr past the end of the
\* longest list and reset it.
C10_Witness ==
  ev.kind = "end_of_list" /\ ev.was_host = nhosts /\ nhosts = MaxHosts /\ host_ctr = 0

\* The attempts of a whole pass over the list: every host in list order,
\* each with a 220 greeting, a 250 HELO reply and a QUIT reply received.
WholePass ==
  [k \in 1..nhosts |-> [host |-> k - 1, statuses |-> <<220, 250>>, full |-> TRUE]]

\* C11: an UP transition is made only by the end-of-list branch and only
\* when, since host_ctr was last 0, every configured host completed a
\* successful attempt in list order; host_ctr counts exactly those
\* attempts, and exhausted retries on any host discard them, with no UP.
C11_UpAfterAllTargets ==
  /\ Len(gh.okHosts) = host_ctr
  /\ ev.up > 0 => ev.kind = "end_of_list" /\ ev.passed = WholePass
  /\ ev.kind = "end_of_list" => ev.passed = WholePass
  /\ ev.kind = "final_exhausted" => gh.okHosts = <<>> /\ ev.up = 0

\* C11 witness: an UP transition after a whole pass over several hosts, by
\* a checker that an earlier failed pass had taken down.
C11_Witness ==
  /\ ev.kind = "end_of_list" /\ ev.up = 1 /\ nhosts >= 2
  /\ ev.had_run /\ ~ev.was_up /\ ev.passed = WholePass

\* C12: the read callback fired as a timeout ends the attempt through
\* smtp_final with the read-timeout error, once; the write errors come from
\* the write callback only; every receive starts with a cleared buffer and
\* buff_ctr 0, and while a receive is pending, and when its line is handed
\* to the engine, the buffer holds exactly the bytes read for that receive:
\* no byte of an earlier attempt.
C12_ReadTimeoutGreeting ==
  /\ ev.fired = "read_timeout" =>
       /\ ev.kind \in {"final_retry", "final_exhausted"}
       /\ ev.msg = "Read timeout"
       /\ ev.final = 1
  /\ ev.msg \in {"Write timeout", "Write failure"} =>
       ev.fired \in {"write_timeout", "write_ready"}
  /\ ev.kind = "get_line" => buff = ClearedBuff /\ buff_ctr = 0 /\ gh.got = <<>>
  /\ waits[ReadReg] > 0 => buff = Padded(gh.got) /\ buff_ctr = Len(gh.got)
  /\ ev.fired = "read_ready" => ev.fresh

\* C12 witness: the greeting receive of the attempt that follows a read
\* timeout on a partly received greeting is pending, on a cleared buffer.
C12_Witness ==
  /\ gh.afterTimeout
  /\ ev.kind = "get_line"
  /\ state = SMTP_HAVE_BANNER
  /\ waits[ReadReg] = 1
  /\ buff = ClearedBuff
  /\ buff_ctr = 0

\* An attempt that opened a socket reaches smtp_final, and
\* smtp_connect_thread runs again and again.
AttemptsEnd ==
  /\ (nopen = 1) ~> (ev.kind \in FinalKinds /\ nopen = 0)
  /\ []<>(ev.fired = "timer")

AgainKinds == {"read_again", "write_again"}
NoEndlessAgain == []<>(ev.kind \notin AgainKinds)

OnlyTimer(d) == waits = thread_add_timer(NoWaits, d)

\* C14: smtp_final with an error and the retries exhausted, on whatever
\* host, leaves retry_it and host_ctr at 0, no socket open and the one
\* timer of delay_loop; until the next attempt host_ctr stays 0, and the
\* next attempt is made from that timer on the first host of the list.
C14_ExhaustedRestarts ==
  /\ ev.kind = "final_exhausted" =>
       /\ retry_it = 0 /\ host_ctr = 0 /\ nopen = 0
       /\ OnlyTimer("delay_loop")
       /\ gh.lastFinal = [kind |-> "final_exhausted", host |-> ev.was_host]
  /\ gh.lastFinal.kind = "final_exhausted" => host_ctr = 0 /\ retry_it = 0
  /\ (ev.kind = "connecting" /\ gh.lastFinal.kind = "final_exhausted") =>
       ev.was_host = 0 /\ host_ptr = 0 /\ ev.timer = "delay_loop"

\* C14 witness: the second host of the list exhausted its retries, and the
\* next attempt is on the first host.
C14_Witness ==
  /\ ev.kind = "connecting"
  /\ gh.lastFinal = [kind |-> "final_exhausted", host |-> 1]
  /\ ev.was_host = 0
  /\ host_ptr = 0

\* C15: smtp_final with an error while retries remain leaves is_up,
\* has_run, alive and host_ctr as they were, makes no transition, sends no
\* alert, and leaves the one timer of delay_before_retry; the next attempt
\* is made on the same host, with the failed attempt counted.
C15_RetryKeepsState ==
  /\ ev.kind = "final_retry" =>
       /\ retry_it = ev.was_retry + 1 /\ retry_it < retry
       /\ is_up = ev.was_up /\ has_run = ev.had_run /\ alive = ev.was_alive
       /\ host_ctr = ev.was_host
       /\ ev.up = 0 /\ ev.down = 0 /\ ev.alert = 0
       /\ nopen = 0
       /\ OnlyTimer("delay_before_retry")
       /\ gh.lastFinal = [kind |-> "final_retry", host |-> host_ctr]
  /\ gh.lastFinal.kind = "final_retry" => host_ctr = gh.lastFinal.host
  /\ (ev.kind = "connecting" /\ gh.lastFinal.kind = "final_retry") =>
       /\ ev.was_host = gh.lastFinal.host
       /\ host_ptr = gh.lastFinal.host
       /\ ev.was_retry > 0

\* C15 witness: the retry of the second host, after its failed attempt.
C15_Witness ==
  /\ ev.kind = "connecting"
  /\ gh.lastFinal = [kind |-> "final_retry", host |-> 1]
  /\ ev.was_host = 1
  /\ ev.timer = "delay_before_retry"

\* The callback left is_up, has_run, alive, retry_it and host_ctr as it
\* found them, made no transition and sent no alert.
NothingDecided ==
  /\ is_up = ev.was_up /\ has_run = ev.had_run /\ alive = ev.was_alive
  /\ retry_it = ev.was_retry /\ host_ctr = ev.was_host
  /\ ev.up = 0 /\ ev.down = 0 /\ ev.alert = 0

\* C16: a failure of socket() or of the bind/registration in
\* smtp_connect_thread does not call smtp_final, leaves retry_it, host_ctr
\* and the health state as they were, leaves no socket open and no wait on
\* a socket, and leaves the one timer of delay_loop.
C16_LocalFailures ==
  ev.kind \in {"socket_failed", "bind_failed"} =>
    /\ ev.final = 0
    /\ NothingDecided
    /\ nopen = 0
    /\ OnlyTimer("delay_loop")

\* C16 witness: the bind fails on the retry of a host; the retry counter
\* stays as the failed attempt left it.
C16_Witness ==
  ev.kind = "bind_failed" /\ ev.was_retry = 1 /\ retry_it = 1 /\ nopen = 0

\* C17: smtp_connect_thread run while the checker is disabled opens no
\* socket, makes no transition, sends no alert, leaves host_ctr, retry_it
\* and the protocol state as they were and leaves the one timer of
\* delay_loop, also with host_ctr past the end of the list.
C17_DisabledPause ==
  ev.kind = "disabled" =>
    /\ ev.final = 0
    /\ NothingDecided
    /\ state = ev.was_state
    /\ nopen = 0
    /\ OnlyTimer("delay_loop")

\* C17 witness: the disabled checker ran with host_ctr past the end of the
\* list, and left it there.
C17_Witness ==
  ev.kind = "disabled" /\ ~enabled /\ host_ctr = nhosts /\ ev.was_host = nhosts

\* C18: an alert is sent by smtp_final exactly when it was called with an
\* error, the retries are exhausted, rs->smtp_alert is set, the checker was
\* up before the DOWN transition, and rs->alive changed across it or
\* checker e-mails are not suppressed; at most one alert per callback, and
\* none outside smtp_final and the end-of-list branch.
C18_FailureAlert ==
  /\ ev.alert <= 1
  /\ ev.kind \in FinalKinds =>
       (ev.alert = 1 <=>
          /\ ev.kind = "final_exhausted"
          /\ smtp_alert
          /\ ev.was_up
          /\ (ev.was_alive # alive \/ ~no_checker_emails))
  /\ ev.kind \notin (FinalKinds \cup {"end_of_list"}) => ev.alert = 0

\* C18 witness: a failure alert for a checker that was up while its real
\* server was not alive: rs->alive did not change, e-mails are not suppressed.
C18_Witness ==
  /\ ev.kind = "final_exhausted" /\ ev.alert = 1 /\ ev.down = 1
  /\ ev.was_up /\ ~ev.was_alive /\ ~alive /\ ~no_checker_emails

ConnectErrors ==
  {"Error connecting to server", "Connection timeout to server",
   "Unknown connection error to server"}

\* C20: smtp_check_thread either ends the attempt with a connect error,
\* leaving the protocol state alone, or enters the engine at SMTP_START
\* whatever state the last attempt left: the greeting receive is then
\* pending in SMTP_HAVE_BANNER as the first I/O of the attempt, and the
\* first event of every attempt's dialogue is that receive.
C20_StateReset ==
  /\ ev.fired = "connect" =>
       \/ /\ ev.kind = "get_line"
          /\ state = SMTP_HAVE_BANNER
          /\ gh.trace = <<"recv">>
          /\ waits[ReadReg] = 1
          /\ buff_cb = "smtp_engine_thread"
       \/ /\ ev.kind \in {"final_retry", "final_exhausted"}
          /\ ev.msg \in ConnectErrors
          /\ gh.trace = <<"final_err">>
          /\ state = ev.was_state
  /\ (gh.trace # <<>> /\ gh.trace # <<"final_err">>) => gh.trace[1] = "recv"
  /\ ev.kind \in {"get_line", "put_line"} /\ ev.fired # "connect" =>
       ev.was_state \notin {SMTP_START, "none"}

\* C20 witness: the last attempt failed on the HELO reply; the new
\* attempt's greeting receive is pending.
C20_Witness ==
  /\ ev.fired = "connect" /\ ev.kind = "get_line"
  /\ ev.was_state = SMTP_RECV_HELO
  /\ state = SMTP_HAVE_BANNER

\* The event e is in the trace of the attempt.
InTrace(e) == \E i \in 1..Len(gh.trace) : gh.trace[i] = e

\* The first n events of a successful attempt.
Expected(n) == SubSeq(ExpectedTrace, 1, n)

\* C21: an attempt ends in smtp_final without error exactly when its
\* greeting parsed to 220, its HELO reply parsed to 250 and a line came in
\* reply to QUIT, whatever that line holds; HELO is sent only after a 220
\* greeting and QUIT only after a 250 HELO reply, and any other status ends
\* the attempt with an error right after the line that carried it.
C21_SuccessCriterion ==
  /\ ev.kind = "final_ok" =>
       gh.statuses = <<220, 250>> /\ gh.trace = ExpectedTrace
  /\ (Len(gh.trace) = 11 /\ SubSeq(gh.trace, 1, 10) = Expected(10)) =>
       gh.trace[11] = "final_ok" /\ ev.kind = "final_ok"
  /\ InTrace("send_helo") => Len(gh.statuses) >= 1 /\ gh.statuses[1] = 220
  /\ InTrace("send_quit") => Len(gh.statuses) = 2 /\ gh.statuses = <<220, 250>>
  /\ (Len(gh.statuses) = 1 /\ gh.statuses[1] # 220) =>
       /\ gh.trace = Expected(2) \o <<"final_err">>
       /\ ev.msg = "Bad greeting banner"
  /\ (Len(gh.statuses) = 2 /\ gh.statuses[2] # 250) =>
       /\ gh.trace = Expected(6) \o <<"final_err">>
       /\ ev.msg = "Bad HELO response"
  /\ Len(gh.statuses) <= 2

\* C21 witness: a successful attempt whose QUIT reply carries no status.
C21_Witness ==
  /\ ev.kind = "final_ok"
  /\ gh.statuses = <<220, 250>>
  /\ smtp_get_status(buff) = 0 - 1

Max(a, b) == IF a > b THEN a ELSE b

\* C22: a host whose attempts all end in smtp_final with an error is
\* attempted max(1, retry) times in a row before the cycle is concluded as
\* failed, every attempt but the last followed by the timer of
\* delay_before_retry; the failed attempts counted in retry_it are those of
\* the current host in the current cycle, and none after a success or
\* after the cycle was concluded.
C22_AttemptsPerTarget ==
  /\ gh.fails = retry_it
  /\ ev.kind = "final_exhausted" =>
       ev.attempts = Max(1, retry) /\ gh.fails = 0
  /\ ev.kind = "final_retry" =>
       /\ ev.attempts = gh.fails
       /\ ev.attempts < Max(1, retry)
       /\ OnlyTimer("delay_before_retry")
  /\ ev.kind \in {"final_ok", "end_of_list"} => gh.fails = 0 /\ retry_it = 0

\* C22 witness: the second host of the list failed the most configured
\* attempts in a row, after the first host had failed one and then passed.
C22_Witness ==
  /\ ev.kind = "final_exhausted"
  /\ ev.was_host = 1
  /\ retry = MaxRetry
  /\ ev.attempts = MaxRetry
  /\ gh.passFailed

\* C23: with update_svr_checker_state setting is_up to the new state and
\* has_run to true, no call of it repeats the state of the call before it:
\* the DOWN and UP calls alternate after the first one, whatever the
\* attempts' outcomes and the changes of the enabled flag; is_up is the
\* state of the last call, and has_run tells that a call was made.
C23_CallsAlternate ==
  /\ ~gh.repeat
  /\ has_run <=> gh.lastCall # "none"
  /\ has_run => (is_up <=> gh.lastCall = "UP")
  /\ ev.down + ev.up <= 1
  /\ ev.down = 1 => gh.lastCall = "DOWN" /\ (ev.had_run => ev.was_up)
  /\ ev.up = 1 => gh.lastCall = "UP" /\ (ev.had_run => ~ev.was_up)

\* C23 witness: a DOWN call that follows an UP call, which itself followed
\* a DOWN call or a start in the down state.
C23_Witness ==
  /\ ev.kind = "final_exhausted" /\ ev.down = 1
  /\ ev.had_run /\ ev.was_up
  /\ gh.lastCall = "DOWN"
  /\ ~is_up

\* C24: buff_ctr is within 0..SMTP_BUFF_MAX in every state, so the length
\* given to read() is never negative and the bytes it stores end within the
\* buffer; buff_ctr is 0 when a receive is started, and at most
\* SMTP_BUFF_MAX - 1 when a line is to be sent.
C24_CursorInRange ==
  /\ buff_ctr \in 0..SMTP_BUFF_MAX
  /\ ev.fired = "read_ready" =>
       /\ ev.len \in 0..SMTP_BUFF_MAX
       /\ ev.r <= ev.len
       /\ ev.fresh
  /\ Len(gh.got) <= SMTP_BUFF_MAX
  /\ ev.kind = "get_line" => buff_ctr = 0
  /\ ev.kind = "put_line" => buff_ctr = StrLen(buff) /\ buff_ctr < SMTP_BUFF_MAX

\* C24 witness: the receive is pending on a buffer filled to its capacity
\* by reads that brought no line feed.
C24_Witness ==
  /\ waits[ReadReg] = 1
  /\ buff_ctr = SMTP_BUFF_MAX
  /\ ev.kind = "read_more"
  /\ ev.fired = "read_ready"

====
